---------------------------- MODULE Spec2Model ----------------------------
(***************************************************************************)
(* Model of the Macro & Weight Tracker (src/app.py): the daily_log         *)
(* worksheet, load_log / save_log, and the script runs of main() that the  *)
(* user's interactions trigger (log food, delete a row, plain rerun).      *)
(*                                                                         *)
(* Numbers.  Macro values are kept in thousandths (98 kcal is 98000), so   *)
(* that macros * grams / 100.0 is exact on the integers; amounts are whole *)
(* numbers.  Date strings ("%d/%m/%Y") are triples <<dd, mm, yyyy>>; a     *)
(* calendar day is its 0-based ordinal in 2026.                            *)
(***************************************************************************)
EXTENDS Integers, Sequences, FiniteSets, TLC

(***************************************************************************)
(* Bounds of the model.                                                    *)
(***************************************************************************)
\* rows the worksheet may hold (the Log Food guard caps the list here)
MaxRows == 2
\* midnights that may pass
MaxAdvance == 1

(***************************************************************************)
(* Program constants.                                                      *)
(***************************************************************************)
\* datetime.timedelta(days=30)
WindowDays == 30
\* macros[...] * grams / 100.0
BaseGrams == 100

COLS == <<"date", "food", "grams", "calories", "protein", "carbs", "fat">>
NUMERIC == <<"grams", "calories", "protein", "carbs", "fat">>
MACROS == <<"calories", "protein", "carbs", "fat">>

Range(f) == {f[i] : i \in DOMAIN f}

food_db ==
  [f \in {"Curd 100G", "Roti", "Sugar Tbsp", "Soya Chunks 100G",
          "Paneer 100G", "Nakpro Plant Protein"} |->
     CASE f = "Curd 100G" ->
            [calories |-> 98000, protein |-> 11000, carbs |-> 4000, fat |-> 5000]
       [] f = "Roti" ->
            [calories |-> 100000, protein |-> 3000, carbs |-> 20000, fat |-> 1000]
       [] f = "Sugar Tbsp" ->
            [calories |-> 44000, protein |-> 0, carbs |-> 11300, fat |-> 0]
       [] f = "Soya Chunks 100G" ->
            [calories |-> 345000, protein |-> 52000, carbs |-> 33000, fat |-> 500]
       [] f = "Paneer 100G" ->
            [calories |-> 296000, protein |-> 25000, carbs |-> 6000, fat |-> 22000]
       [] f = "Nakpro Plant Protein" ->
            [calories |-> 138000, protein |-> 25000, carbs |-> 4000, fat |-> 2000]]

(***************************************************************************)
(* Calendar: datetime.date, strftime("%d/%m/%Y"), pd.to_datetime(...,      *)
(* format="%d/%m/%Y", errors="coerce").                                    *)
(***************************************************************************)
MonthLen == <<31, 28, 31, 30, 31, 30, 31, 31, 30, 31, 30, 31>>

RECURSIVE DayMonth(_, _)
DayMonth(n, m) ==
  IF n < MonthLen[m] THEN <<n + 1, m>> ELSE DayMonth(n - MonthLen[m], m + 1)

\* date.strftime("%d/%m/%Y") of the day with ordinal n
Strftime(n) == LET dm == DayMonth(n, 1) IN <<dm[1], dm[2], 2026>>

RECURSIVE DaysBefore(_)
DaysBefore(m) == IF m = 1 THEN 0 ELSE MonthLen[m - 1] + DaysBefore(m - 1)

NaT == -1

\* pd.to_datetime(text, format="%d/%m/%Y", errors="coerce"): the ordinal, or NaT
ToDatetime(text) ==
  IF /\ text[3] = 2026
     /\ text[2] \in 1..12
     /\ text[1] >= 1
     /\ text[1] <= MonthLen[text[2]]
  THEN DaysBefore(text[2]) + text[1] - 1
  ELSE NaT

\* the first day of the model: 3 March 2026
Day0 == 31 + 28 + 2

(***************************************************************************)
(* The worksheet "daily_log": header is its first row (<<>> on a blank     *)
(* sheet), rows are the records under it, keyed by the header's names.     *)
(* A cell reads back as it was written (dates as text, numbers as          *)
(* numbers).                                                               *)
(***************************************************************************)
BlankSheet == [exists |-> TRUE, header |-> <<>>, rows |-> <<>>]
MissingSheet == [exists |-> FALSE, header |-> <<>>, rows |-> <<>>]

\* ws.get_all_records(): one dict per row under the header; [] on a blank sheet
GetAllRecords(w) == w.rows

\* pd.DataFrame(data): the columns are the records' keys; none when data is []
DataFrame(data) ==
  [columns |-> IF data = <<>> THEN <<>>
               ELSE SelectSeq(COLS, LAMBDA c : c \in DOMAIN data[1]),
   rows |-> data]

EmptyFrame == [columns |-> COLS, rows |-> <<>>]

\* ensure_columns: df[c] = [] raises ValueError on a frame that has rows
EnsureColumnsRaises(df, cols) ==
  \E i \in DOMAIN cols :
     /\ cols[i] \notin Range(df.columns)
     /\ cols[i] \in {"food", "date"}
     /\ df.rows # <<>>

ensure_columns(df, cols) ==
  [columns |-> cols,
   rows |-> [i \in DOMAIN df.rows |->
               [c \in Range(cols) |->
                  IF c \in Range(df.columns) THEN df.rows[i][c] ELSE 0]]]

\* a numeric column's cell that holds text (amounts and macros are never negative)
TextCell == -1

\* pd.to_numeric(x, errors="coerce") followed by fillna(0.0)
ToNumeric(x) == IF x = TextCell THEN 0 ELSE x

CoerceNumeric(df) ==
  [columns |-> df.columns,
   rows |-> [i \in DOMAIN df.rows |->
               [c \in Range(df.columns) |->
                  IF c \in Range(NUMERIC) THEN ToNumeric(df.rows[i][c])
                  ELSE df.rows[i][c]]]]

\* variant of load_log that parses the date column and drops the rows it cannot parse
load_log_dropna(w) ==
  LET df0 == IF w.exists THEN DataFrame(GetAllRecords(w)) ELSE EmptyFrame
      df1 == CoerceNumeric(ensure_columns(df0, COLS))
  IN  IF EnsureColumnsRaises(df0, COLS)
      THEN [raised |-> "ValueError", df |-> EmptyFrame]
      ELSE [raised |-> "none",
            df |-> [df1 EXCEPT !.rows = SelectSeq(@, LAMBDA r : ToDatetime(r.date) # NaT)]]

\* load_log(): [raised, df]
load_log(w) ==
  LET df0 == IF w.exists THEN DataFrame(GetAllRecords(w)) ELSE EmptyFrame
  IN  IF EnsureColumnsRaises(df0, COLS)
      THEN [raised |-> "ValueError", df |-> EmptyFrame]
      ELSE [raised |-> "none", df |-> CoerceNumeric(ensure_columns(df0, COLS))]

\* ws.clear()
WsClear(w) == [w EXCEPT !.header = <<>>, !.rows = <<>>]

\* variant of WsUpdate that adds the rows under what the sheet already holds
WsUpdateAppend(w, df) == [w EXCEPT !.header = df.columns, !.rows = @ \o df.rows]

\* ws.update([df.columns.tolist()] + df.astype(object).values.tolist())
WsUpdate(w, df) == [w EXCEPT !.header = df.columns, !.rows = df.rows]

\* variant of SaveRows without the emptiness test: the header is always written
SaveRowsAlways(w, df) == WsUpdate(w, df)

\* save_log, lines 54-55: if not df.empty: ws.update(...)
SaveRows(w, df) == IF df.rows # <<>> THEN WsUpdate(w, df) ELSE w


(***************************************************************************)
(* Pieces of main().                                                       *)
(***************************************************************************)
\* lines 150-157: the row the Log Food form builds
ScaleMacro(ref, grams) == (ref * grams) \div BaseGrams

NewRow(today, food, grams) ==
  [date |-> today, food |-> food, grams |-> grams,
   calories |-> ScaleMacro(food_db[food].calories, grams),
   protein |-> ScaleMacro(food_db[food].protein, grams),
   carbs |-> ScaleMacro(food_db[food].carbs, grams),
   fat |-> ScaleMacro(food_db[food].fat, grams)]

\* line 158: pd.concat([log_df, new_row], ignore_index=True)
Concat(df, row) == [df EXCEPT !.rows = Append(@, row)]

\* variant of TodayIndex without the date filter
TodayIndexAll(df, today) == [j \in DOMAIN df.rows |-> j]

\* line 169: the index labels of log_df[log_df["date"] == today]
TodayIndex(df, today) ==
  SelectSeq([j \in DOMAIN df.rows |-> j], LAMBDA j : df.rows[j].date = today)

\* line 169: today_log
TodayLog(df, today) ==
  LET idx == TodayIndex(df, today) IN [i \in DOMAIN idx |-> df.rows[idx[i]]]

\* variant of Drop that removes every row equal to the labelled one
DropMatching(df, label) ==
  [df EXCEPT !.rows = SelectSeq(@, LAMBDA r : r # df.rows[label])]

\* line 200: log_df.drop(index=label)
Drop(df, label) ==
  [df EXCEPT !.rows = [j \in 1..(Len(@) - 1) |-> IF j < label THEN @[j] ELSE @[j + 1]]]

RECURSIVE SumCol(_, _)
SumCol(rows, c) == IF rows = <<>> THEN 0 ELSE Head(rows)[c] + SumCol(Tail(rows), c)

\* lines 234-237: the Daily Summary figures
DayTotals(today_log) ==
  [c \in Range(MACROS) |-> IF today_log # <<>> THEN SumCol(today_log, c) ELSE 0]

\* variant of Cutoff that is one day short
CutoffShort(day) == day - WindowDays + 1

\* line 269: cutoff = datetime.date.today() - datetime.timedelta(days=30)
Cutoff(day) == day - WindowDays

\* lines 268-270: the rows of the "Last 30 Days" export (NaT compares False)
Last30(df, day) ==
  SelectSeq(df.rows, LAMBDA r : /\ ToDatetime(r.date) # NaT
                                /\ ToDatetime(r.date) >= Cutoff(day))

(***************************************************************************)
(* State.                                                                  *)
(***************************************************************************)
Sessions == {1, 2}

NoRow == [date |-> <<0, 0, 0>>, food |-> "", grams |-> 0,
          calories |-> 0, protein |-> 0, carbs |-> 0, fat |-> 0]

\* a rerun request: the widget that fired, with what the user saw (target: the
\* row on screen beside a pressed delete button; dup: that button had already
\* been pressed on the same page)
NoEvent == [kind |-> "view", food |-> "", grams |-> 0, row |-> 0,
            target |-> NoRow, dup |-> FALSE]

VARIABLES
  clock,     \* datetime.date.today(), as an ordinal
  ws,        \* the worksheet "daily_log"
  pc,        \* where each session's script run stands
  queue,     \* the rerun request sent by the front end that no run has taken up
  cur,       \* the interaction the current run serves
  log_df,    \* main's log_df
  today,     \* main's today (line 105)
  shown,     \* the rows of today's log on screen, each with its delete button
  clicked,   \* delete buttons pressed on the page now on screen
  totals,    \* the Daily Summary figures on screen
  export30,  \* the rows offered by "Download Last 30 Days Food Log"
  err,       \* the exception the last run ended with
  notice,    \* the row named by the last st.success("Logged ...")
  before     \* the worksheet's rows when the last save_log began

vars == <<clock, ws, pc, queue, cur, log_df, today, shown, clicked,
          totals, export30, err, notice, before>>

ZeroTotals == [c \in Range(MACROS) |-> 0]


\* the food and amount the user may enter; the rows whose button may be pressed
FoodInputs == {"Curd 100G", "Roti"}
GramInputs == {0, 2}

\* a row as an earlier run of the Log Food form wrote it
Logged(day, food, grams) == NewRow(Strftime(day), food, grams)

\* worksheets the program may find at start
InitSheets ==
  { MissingSheet,
    BlankSheet,
    \* written 35 and 30 days ago
    [exists |-> TRUE, header |-> COLS,
     rows |-> <<Logged(Day0 - 35, "Paneer 100G", 100),
                Logged(Day0 - 30, "Curd 100G", 200)>>],
    \* edited by hand: an impossible date, and text in a numeric cell
    [exists |-> TRUE, header |-> COLS,
     rows |-> <<[Logged(Day0, "Roti", 2) EXCEPT !.date = <<31, 2, 2026>>],
                [Logged(Day0, "Curd 100G", 250) EXCEPT !.calories = TextCell]>>],
    \* edited by hand: the food column is gone
    [exists |-> TRUE,
     header |-> <<"date", "grams", "calories", "protein", "carbs", "fat">>,
     rows |-> <<[date |-> Strftime(Day0), grams |-> 100, calories |-> 98000,
                 protein |-> 11000, carbs |-> 4000, fat |-> 5000]>>],
    \* edited by hand: the fat column is gone
    [exists |-> TRUE,
     header |-> <<"date", "food", "grams", "calories", "protein", "carbs">>,
     rows |-> <<[date |-> Strftime(Day0), food |-> "Curd 100G", grams |-> 100,
                 calories |-> 98000, protein |-> 11000, carbs |-> 4000]>>] }

InitWith(sheets) ==
  /\ clock = Day0
  /\ ws \in sheets
  /\ pc = [s \in Sessions |-> "idle"]
  /\ queue = [s \in Sessions |-> <<NoEvent>>]
  /\ cur = [s \in Sessions |-> NoEvent]
  /\ log_df = [s \in Sessions |-> EmptyFrame]
  /\ today = [s \in Sessions |-> Strftime(Day0)]
  /\ shown = [s \in Sessions |-> <<>>]
  /\ clicked = [s \in Sessions |-> {}]
  /\ totals = [s \in Sessions |-> ZeroTotals]
  /\ export30 = [s \in Sessions |-> <<>>]
  /\ err = [s \in Sessions |-> "none"]
  /\ notice = [s \in Sessions |-> NoRow]
  /\ before = [s \in Sessions |-> <<>>]

Init == InitWith(InitSheets)

(***************************************************************************)
(* The user and the clock.                                                 *)
(***************************************************************************)
Max(a, b) == IF a >= b THEN a ELSE b

RECURSIVE MaxOver(_, _)
MaxOver(S, f) ==
  IF S = {} THEN 0
  ELSE LET x == CHOOSE y \in S : TRUE IN Max(f[x], MaxOver(S \ {x}, f))

\* rows the log may come to hold once every Log Food on its way is served
Outstanding(s) ==
  Len(SelectSeq(queue[s], LAMBDA e : e.kind = "submit"))
  + (IF pc[s] = "loaded" /\ cur[s].kind = "submit" THEN 1 ELSE 0)

RECURSIVE SumOver(_, _)
SumOver(S, f) ==
  IF S = {} THEN 0
  ELSE LET x == CHOOSE y \in S : TRUE IN f[x] + SumOver(S \ {x}, f)

Room ==
  Max(Len(ws.rows), MaxOver(Sessions, [s \in Sessions |-> Len(log_df[s].rows)]))
  + SumOver(Sessions, [s \in Sessions |-> Outstanding(s)]) < MaxRows

\* a session holds one rerun request at a time, until a run takes it up
Enqueue(s, e) ==
  /\ queue[s] = <<>>
  /\ queue' = [queue EXCEPT ![s] = Append(@, e)]

\* the Log Food form of one food is submitted (lines 146-148)
Submit(s, food, grams) ==
  /\ Room
  /\ Enqueue(s, [NoEvent EXCEPT !.kind = "submit", !.food = food, !.grams = grams])
  /\ UNCHANGED <<clock, ws, pc, cur, log_df, today, shown, clicked, totals,
                 export30, err, notice, before>>

\* the delete button of displayed row i is pressed (line 198, key del_i)
ClickDelete(s, i) ==
  /\ i \in DOMAIN shown[s]
  /\ Enqueue(s, [NoEvent EXCEPT !.kind = "delete", !.row = i,
                                !.target = shown[s][i],
                                !.dup = (i \in clicked[s])])
  /\ clicked' = [clicked EXCEPT ![s] = @ \cup {i}]
  /\ UNCHANGED <<clock, ws, pc, cur, log_df, today, shown, totals, export30,
                 err, notice, before>>

\* any other interaction: the script reruns with no button pressed
Refresh(s) ==
  /\ Enqueue(s, NoEvent)
  /\ UNCHANGED <<clock, ws, pc, cur, log_df, today, shown, clicked, totals,
                 export30, err, notice, before>>

\* midnight passes
Tick ==
  /\ clock < Day0 + MaxAdvance
  /\ clock' = clock + 1
  /\ UNCHANGED <<ws, pc, queue, cur, log_df, today, shown, clicked, totals,
                 export30, err, notice, before>>


(***************************************************************************)
(* A script run of main(): load (lines 101-105), then the one widget that  *)
(* fired, then either save_log and st.experimental_rerun() or the rest of  *)
(* the page.                                                               *)
(***************************************************************************)
\* lines 101-105 of a run that serves interaction e
RunLoad(s, e) ==
  LET r == load_log(ws) IN
  /\ cur' = [cur EXCEPT ![s] = IF r.raised = "none" THEN e ELSE NoEvent]
  /\ log_df' = [log_df EXCEPT ![s] = r.df]
  /\ today' = [today EXCEPT ![s] = Strftime(clock)]
  /\ err' = [err EXCEPT ![s] = r.raised]
  /\ pc' = [pc EXCEPT ![s] = IF r.raised = "none" THEN "loaded" ELSE "idle"]
  /\ notice' = [notice EXCEPT ![s] = NoRow]
  /\ before' = [before EXCEPT ![s] = <<>>]

\* the front end's next interaction starts a run
StartRun(s) ==
  /\ pc[s] = "idle"
  /\ queue[s] # <<>>
  /\ queue' = [queue EXCEPT ![s] = Tail(@)]
  /\ RunLoad(s, Head(queue[s]))
  /\ UNCHANGED <<clock, ws, shown, clicked, totals, export30>>

\* lines 149-158: the submitted form appends its row
AppendRow(s) ==
  /\ pc[s] = "loaded"
  /\ cur[s].kind = "submit"
  /\ cur[s].grams > 0
  /\ log_df' = [log_df EXCEPT
                  ![s] = Concat(@, NewRow(today[s], cur[s].food, cur[s].grams))]
  /\ pc' = [pc EXCEPT ![s] = "save"]
  /\ UNCHANGED <<clock, ws, queue, cur, today, shown, clicked, totals,
                 export30, err, notice, before>>

\* whether this run draws a button with key del_i (lines 171, 180, 198)
ButtonDrawn(s, i) == i \in DOMAIN TodayLog(log_df[s], today[s])

\* lines 198-200: the pressed delete button drops its row
DeleteRow(s) ==
  /\ pc[s] = "loaded"
  /\ cur[s].kind = "delete"
  /\ ButtonDrawn(s, cur[s].row)
  /\ log_df' = [log_df EXCEPT
                  ![s] = Drop(@, TodayIndex(@, today[s])[cur[s].row])]
  /\ pc' = [pc EXCEPT ![s] = "save"]
  /\ UNCHANGED <<clock, ws, queue, cur, today, shown, clicked, totals,
                 export30, err, notice, before>>

\* no widget changed the log: the page is drawn to its end (lines 169-291)
Render(s) ==
  /\ pc[s] = "loaded"
  /\ CASE cur[s].kind = "submit" -> cur[s].grams <= 0
       [] cur[s].kind = "delete" -> ~ButtonDrawn(s, cur[s].row)
       [] OTHER -> TRUE
  /\ shown' = [shown EXCEPT ![s] = TodayLog(log_df[s], today[s])]
  /\ clicked' = [clicked EXCEPT ![s] = {}]
  /\ totals' = [totals EXCEPT ![s] = DayTotals(TodayLog(log_df[s], today[s]))]
  /\ export30' = [export30 EXCEPT ![s] = Last30(log_df[s], clock)]
  /\ cur' = [cur EXCEPT ![s] = NoEvent]
  /\ pc' = [pc EXCEPT ![s] = "idle"]
  /\ UNCHANGED <<clock, ws, queue, log_df, today, err, notice, before>>

\* save_log, lines 52-53: sheet.worksheet("daily_log") and ws.clear()
SaveClear(s) ==
  /\ pc[s] = "save"
  /\ before' = [before EXCEPT ![s] = ws.rows]
  /\ IF ~ws.exists
     THEN /\ err' = [err EXCEPT ![s] = "WorksheetNotFound"]
          /\ pc' = [pc EXCEPT ![s] = "idle"]
          /\ cur' = [cur EXCEPT ![s] = NoEvent]
          /\ UNCHANGED ws
     ELSE /\ ws' = WsClear(ws)
          /\ pc' = [pc EXCEPT ![s] = "update"]
          /\ UNCHANGED <<err, cur>>
  /\ UNCHANGED <<clock, queue, log_df, today, shown, clicked, totals,
                 export30, notice>>

\* save_log, lines 54-55, and st.success (line 160)
SaveUpdate(s) ==
  /\ pc[s] = "update"
  /\ ws' = SaveRows(ws, log_df[s])
  /\ notice' = [notice EXCEPT
                  ![s] = IF cur[s].kind = "submit"
                         THEN log_df[s].rows[Len(log_df[s].rows)] ELSE NoRow]
  /\ pc' = [pc EXCEPT ![s] = "rerun"]
  /\ UNCHANGED <<clock, queue, cur, log_df, today, shown, clicked, totals,
                 export30, err, before>>

\* st.experimental_rerun() (lines 161, 202): a new run, no widget fired
Rerun(s) ==
  /\ pc[s] = "rerun"
  /\ RunLoad(s, NoEvent)
  /\ UNCHANGED <<clock, ws, queue, shown, clicked, totals, export30>>

\* the Sheets API call of line 53 fails: the exception ends the run
SaveClearFail(s) ==
  /\ pc[s] = "save"
  /\ ws.exists
  /\ before' = [before EXCEPT ![s] = ws.rows]
  /\ err' = [err EXCEPT ![s] = "APIError"]
  /\ pc' = [pc EXCEPT ![s] = "idle"]
  /\ cur' = [cur EXCEPT ![s] = NoEvent]
  /\ UNCHANGED <<clock, ws, queue, log_df, today, shown, clicked, totals,
                 export30, notice>>

\* the Sheets API call of line 55 fails: the exception ends the run
SaveUpdateFail(s) ==
  /\ pc[s] = "update"
  /\ log_df[s].rows # <<>>
  /\ err' = [err EXCEPT ![s] = "APIError"]
  /\ pc' = [pc EXCEPT ![s] = "idle"]
  /\ cur' = [cur EXCEPT ![s] = NoEvent]
  /\ UNCHANGED <<clock, ws, queue, log_df, today, shown, clicked, totals,
                 export30, notice, before>>

UserStep(s) ==
  \/ \E food \in FoodInputs, grams \in GramInputs : Submit(s, food, grams)
  \/ \E i \in 1..(MaxRows + 1) : ClickDelete(s, i)
  \/ Refresh(s)

RunStep(s) ==
  \/ StartRun(s)
  \/ AppendRow(s)
  \/ DeleteRow(s)
  \/ Render(s)
  \/ SaveClear(s)
  \/ SaveUpdate(s)
  \/ Rerun(s)

\* one session, a store that never fails
Next == UserStep(1) \/ RunStep(1) \/ Tick

Spec == Init /\ [][Next]_vars


\* one session, a store whose write calls may fail
NextFail ==
  \/ UserStep(1)
  \/ RunStep(1)
  \/ SaveClearFail(1)
  \/ SaveUpdateFail(1)

SpecFail == Init /\ [][NextFail]_vars

\* two sessions that log food against the same worksheet
RaceStep(s) ==
  \/ \E food \in FoodInputs, grams \in GramInputs \ {0} : Submit(s, food, grams)
  \/ StartRun(s)
  \/ AppendRow(s)
  \/ Render(s)
  \/ SaveClear(s)
  \/ SaveUpdate(s)
  \/ Rerun(s)

NextRace == \E s \in Sessions : RaceStep(s)

SpecRace == InitWith({BlankSheet}) /\ [][NextRace]_vars


(***************************************************************************)
(* Properties.                                                             *)
(***************************************************************************)
\* a step in which session s finishes load_log (lines 101-105)
LoadDone(s) == pc[s] \in {"idle", "rerun"} /\ pc'[s] = "loaded"

\* a step in which session s finishes save_log (line 55 returns)
SaveDone(s) == pc[s] = "update" /\ pc'[s] = "rerun"

\* a step in which session s draws the page to its end
PageDrawn(s) == pc[s] = "loaded" /\ pc'[s] = "idle"

\* the date parses and lies more than 30 days before the day
TooOld(r, day) == ToDatetime(r.date) # NaT /\ ToDatetime(r.date) + 30 < day

\* C1 as stated: right after load_log or save_log completes, neither the loaded
\* log nor the worksheet holds an entry dated earlier than today - 30 days.
C1_PrunedOnLoadAndSave ==
  \A s \in Sessions :
    /\ pc[s] = "loaded" =>
         \A i \in DOMAIN log_df[s].rows :
            ~TooOld(log_df[s].rows[i], ToDatetime(today[s]))
    /\ pc[s] = "rerun" =>
         \A i \in DOMAIN ws.rows : ~TooOld(ws.rows[i], ToDatetime(today[s]))

\* C1 amended: the 30-day window is applied only to the "Last 30 Days" export
\* built while the page is drawn, which holds exactly the log's rows whose date
\* parses and is not earlier than the current date - 30 days; load_log returns
\* as many rows as the worksheet holds and save_log writes as many rows as the
\* log holds, whatever their dates.
C1_WindowOnlyInExport ==
  [][\A s \in Sessions :
       /\ PageDrawn(s) =>
            /\ \A i \in DOMAIN export30'[s] :
                  /\ ToDatetime(export30'[s][i].date) # NaT
                  /\ clock - ToDatetime(export30'[s][i].date) <= 30
            /\ Len(export30'[s]) =
                 Cardinality({i \in DOMAIN log_df[s].rows :
                                /\ ToDatetime(log_df[s].rows[i].date) # NaT
                                /\ clock - ToDatetime(log_df[s].rows[i].date) <= 30})
            /\ \A i \in DOMAIN export30'[s] :
                  \E j \in DOMAIN log_df[s].rows : log_df[s].rows[j] = export30'[s][i]
       /\ LoadDone(s) => Len(log_df'[s].rows) = Len(ws.rows)
       /\ SaveDone(s) => Len(ws'.rows) = Len(log_df[s].rows)]_vars

\* C1 witness: a page is on screen whose log and worksheet hold an entry older
\* than the window, which only the export leaves out.
C1_Witness ==
  \E s \in Sessions :
    /\ pc[s] = "idle" /\ err[s] = "none"
    /\ export30[s] # <<>>
    /\ Len(export30[s]) < Len(log_df[s].rows)
    /\ \E i \in DOMAIN log_df[s].rows :
          /\ TooOld(log_df[s].rows[i], clock)
          /\ ws.rows[i].date = log_df[s].rows[i].date

\* C4 as stated: whenever save_log has completed, the worksheet holds the header
\* row.
C4_HeaderAlwaysKept ==
  \A s \in Sessions : pc[s] = "rerun" => ws.header = COLS

\* C4 amended: save_log of an empty log leaves the worksheet blank, with no
\* header row and no data row; the header is written only together with at
\* least one entry; and load_log reads a blank worksheet as an empty log with
\* the seven schema columns.
C4_EmptySaveLeavesBlank ==
  \A s \in Sessions :
    /\ pc[s] = "rerun" =>
         IF log_df[s].rows = <<>>
         THEN ws.header = <<>> /\ ws.rows = <<>>
         ELSE ws.header = COLS /\ ws.rows = log_df[s].rows
    /\ (pc[s] = "loaded" /\ ws = BlankSheet) => log_df[s] = EmptyFrame

\* C4 witness: the last remaining entry has been deleted and saved.
C4_Witness ==
  \E s \in Sessions :
    /\ pc[s] = "rerun"
    /\ cur[s].kind = "delete"
    /\ before[s] # <<>>
    /\ log_df[s].rows = <<>>
    /\ ws = BlankSheet

\* C5 as stated: no entry with an unparseable date is in the log after load_log.
C5_MalformedDropped ==
  \A s \in Sessions :
    pc[s] = "loaded" =>
      \A i \in DOMAIN log_df[s].rows : ToDatetime(log_df[s].rows[i].date) # NaT

\* C5 amended: load_log does not parse the date column: it returns every stored
\* row, in order and with its date as stored, also the rows whose date cannot
\* be parsed, and never fails because of such a date; those rows are left out
\* of the "Last 30 Days" export only.
C5_MalformedKept ==
  \A s \in Sessions :
    /\ pc[s] = "loaded" =>
         /\ Len(log_df[s].rows) = Len(ws.rows)
         /\ \A i \in DOMAIN ws.rows : log_df[s].rows[i].date = ws.rows[i].date
    /\ err[s] = "ValueError" => "food" \notin Range(ws.header)
    /\ \A i \in DOMAIN export30[s] : ToDatetime(export30[s][i].date) # NaT

\* C5 witness: a page is on screen whose log holds a row with an unparseable
\* date, beside a row the export offers.
C5_Witness ==
  \E s \in Sessions :
    /\ pc[s] = "idle" /\ err[s] = "none"
    /\ export30[s] # <<>>
    /\ \E i \in DOMAIN log_df[s].rows : ToDatetime(log_df[s].rows[i].date) = NaT

\* C6 as stated: load_log never raises, and returns a log with exactly the
\* seven schema columns, also when rows lack an expected column.
C6_LoadNeverRaises ==
  \A s \in Sessions :
    /\ err[s] # "ValueError"
    /\ pc[s] = "loaded" => log_df[s].columns = COLS


\* a step in which session s drops a row for a pressed delete button
RowDropped(s) == pc[s] = "loaded" /\ pc'[s] = "save" /\ cur[s].kind = "delete"

\* the sequence without its p-th element
RemoveAt(rows, p) == SubSeq(rows, 1, p - 1) \o SubSeq(rows, p + 1, Len(rows))

\* the position in rows of the i-th row dated day
NthOfDay(rows, day, i, p) ==
  /\ p \in DOMAIN rows
  /\ rows[p].date = day
  /\ Cardinality({j \in 1..p : rows[j].date = day}) = i

C3_RepeatedDeleteIsNoOp ==
  \A s \in Sessions :
    (cur[s].kind = "delete" /\ cur[s].dup) => pc[s] \notin {"save", "update", "rerun"}

\* the base amount the reference row of a food is expressed per
GramFoods == {"Curd 100G", "Soya Chunks 100G", "Paneer 100G"}
BaseAmount(food) == IF food \in GramFoods THEN 100 ELSE 1

\* C7 as stated: each logged macro value equals reference * amount / base_amount,
\* base_amount being 100 for a food measured in grams and 1 for any other.
C7_ScaledByUnitBase ==
  \A s \in Sessions :
    (pc[s] = "save" /\ cur[s].kind = "submit") =>
      LET r == log_df[s].rows[Len(log_df[s].rows)] IN
        \A c \in Range(MACROS) :
           r[c] * BaseAmount(r.food) = food_db[r.food][c] * r.grams

\* C8: the Daily Summary figures on screen are, field by field, the sums over
\* exactly the log rows dated today, and zero when there is none.
C8_TotalsAreTodaySums ==
  \A s \in Sessions :
    (pc[s] = "idle" /\ err[s] = "none") =>
      \A c \in Range(MACROS) :
         totals[s][c] =
           SumOver({i \in DOMAIN log_df[s].rows : log_df[s].rows[i].date = today[s]},
                   [i \in DOMAIN log_df[s].rows |-> log_df[s].rows[i][c]])

\* C8 witness: totals are on screen for a day with an entry, while the log also
\* holds an entry of another date with calories of its own.
C8_Witness ==
  \E s \in Sessions :
    /\ pc[s] = "idle" /\ err[s] = "none"
    /\ totals[s].calories > 0
    /\ \E i \in DOMAIN log_df[s].rows :
          /\ log_df[s].rows[i].date # today[s]
          /\ log_df[s].rows[i].calories > 0

\* C9 as stated: after a save_log that failed with a storage error, the
\* worksheet still holds every entry it held when that save_log began.
C9_FailedSaveKeepsStore ==
  \A s \in Sessions :
    err[s] = "APIError" =>
      \A i \in DOMAIN before[s] : \E j \in DOMAIN ws.rows : ws.rows[j] = before[s][i]

\* C10: save_log rewrites the worksheet from the saving session's own copy: when
\* a session's save_log completes, without error, the worksheet holds exactly
\* that session's log, whatever the other session saved since this one loaded.
C10_SaveRewritesFromOwnCopy ==
  [][\A s \in Sessions :
       SaveDone(s) => /\ ws'.rows = log_df[s].rows
                      /\ err'[s] = "none"]_vars

\* C10 witness: both sessions loaded, appended and saved, neither saw an error,
\* and the worksheet lacks the entry one of them was told is logged.
C10_Witness ==
  \E s, t \in Sessions :
    /\ s # t
    /\ pc[s] = "rerun" /\ pc[t] = "rerun"
    /\ err[s] = "none" /\ err[t] = "none"
    /\ notice[s] # NoRow /\ notice[t] # NoRow
    /\ \A j \in DOMAIN ws.rows : ws.rows[j] # notice[s]
    /\ \E j \in DOMAIN ws.rows : ws.rows[j] = notice[t]

=============================================================================
